---------------------------- MODULE Spec2Model ----------------------------
(***************************************************************************)
(* A model of the period-sequence library: the Period value object (in its *)
(* millisecond and its day-precision form) and the Sequence container with *)
(* its set algebra.  Operators follow the TypeScript sources; actions are  *)
(* the public methods, applied to objects drawn by the constructors.       *)
(***************************************************************************)
EXTENDS Integers, Sequences, FiniteSets, TLC

VARIABLES
    variant,   \* which Period class is linked: "ms" (Period.ts) or "day"
    p,         \* the receiver Period object (its three private fields)
    pop,       \* the last Period operation and its arguments
    pout,      \* what the last Period operation returned or threw
    s1,        \* the receiver Sequence object
    arg,       \* the argument of the last Sequence operation
    res,       \* what the last Sequence operation returned or threw
    op,        \* the name of the last Sequence operation
    caller,    \* the array toArray() handed to the calling code
    pool       \* the PeriodPool singleton, the objects it has handed out, the last call

vars == <<variant, p, pop, pout, s1, arg, res, op, caller, pool>>

-----------------------------------------------------------------------------
(* Bounds of the model *)

MaxDay == 3     \* timestamps range over days 0..MaxDay
MaxLen == 2     \* longest array handed to a Sequence constructor
SeqMaxDay == 3  \* the Periods of a Sequence lie within days 0..SeqMaxDay
MaxCopied == 1  \* longest argument of union made of newly allocated Periods
GapMaxDay == 5  \* the Periods of a Sequence whose gaps are taken lie within days 0..GapMaxDay
GapLen == 3     \* longest array of a Sequence whose gaps are taken
PoolObjects == 2 \* Period objects the pool gets to allocate
MaxPooled == 3   \* releases are taken while the pool holds fewer objects than this
MaxCalls == 3    \* acquire calls between two clear calls
ChainLen == 3   \* longest array a chain of push, unshift and insert calls is let grow to
MergeLen == 3   \* longest array of a Sequence that is merged twice

(* Program constants *)

DAY == 86400000
HalfDay == DAY \div 2

IncludeStartExcludeEnd == 0
ExcludeStartIncludeEnd == 1
IncludeAll == 2
ExcludeAll == 3

Bounds == {IncludeStartExcludeEnd, ExcludeStartIncludeEnd, IncludeAll, ExcludeAll}

START_INCLUSIVE == 1
END_INCLUSIVE == 2

BOUNDS_BITS ==
    [b \in Bounds |->
        CASE b = IncludeStartExcludeEnd -> 1
          [] b = ExcludeStartIncludeEnd -> 2
          [] b = IncludeAll -> 3
          [] b = ExcludeAll -> 0]

\* x & mask for a one-bit mask (1 or 2)
BitAnd(x, mask) == IF (x \div mask) % 2 = 1 THEN mask ELSE 0

isStartInclusive(bounds) == BitAnd(BOUNDS_BITS[bounds], START_INCLUSIVE) # 0

isEndInclusive(bounds) == BitAnd(BOUNDS_BITS[bounds], END_INCLUSIVE) # 0

\* x & y for two-bit patterns
BitAnd2(x, y) ==
    (IF BitAnd(x, START_INCLUSIVE) # 0 /\ BitAnd(y, START_INCLUSIVE) # 0 THEN START_INCLUSIVE ELSE 0)
    + (IF BitAnd(x, END_INCLUSIVE) # 0 /\ BitAnd(y, END_INCLUSIVE) # 0 THEN END_INCLUSIVE ELSE 0)

\* FastBounds.touchingOverlaps
touchingOverlaps(bounds1, bounds2) ==
    BitAnd2(BitAnd2(BOUNDS_BITS[bounds1], BOUNDS_BITS[bounds2]), 3) = 3

-----------------------------------------------------------------------------
(* Values: a thrown error, null/undefined, a Period object *)

InvalidRange == "Start date must be before end date"

Throw(m) == [thrown |-> TRUE, message |-> m]

Null == [null |-> TRUE]

IsThrown(x) == "thrown" \in DOMAIN x

IsNull(x) == "null" \in DOMAIN x

IsPeriod(x) == "startTime" \in DOMAIN x

Max(a, b) == IF a >= b THEN a ELSE b

Min(a, b) == IF a <= b THEN a ELSE b

-----------------------------------------------------------------------------
(* Period *)

\* Date.UTC(getUTCFullYear, getUTCMonth, getUTCDate): the instant floored to its UTC day
\* the input timestamp kept as it is, time of day included
_normalizeKeepTime(input) == input

_normalizeDateToMidnightUTC(input) == (input \div DAY) * DAY

\* the constructor's conversion of its inputs to timestamps
Normalize(v, t) == IF v = "day" THEN _normalizeDateToMidnightUTC(t) ELSE t

\* new Period(start, end, bounds); ref is the identity of the allocated object
NewPeriodStrict(v, start, end, bounds, ref) ==
    LET startTime == Normalize(v, start)
        endTime == Normalize(v, end)
    IN IF startTime > endTime
         THEN Throw(InvalidRange)
         ELSE [startTime |-> startTime, endTime |-> endTime, bounds |-> bounds, ref |-> ref]

NewPeriod(v, start, end, bounds, ref) ==
    LET startTime == Normalize(v, start)
        endTime == Normalize(v, end)
    IN IF startTime >= endTime
         THEN Throw(InvalidRange)
         ELSE [startTime |-> startTime, endTime |-> endTime, bounds |-> bounds, ref |-> ref]

\* objects allocated inside an operation are new; no operation modelled here
\* compares them by reference
Fresh == "fresh"

\* the objects a caller constructs itself, and a second allocation of equal ones
Given == "given"

Copy == "copy"

overlapsEitherInclusive(this, other) ==
    IF this.endTime = other.startTime
    THEN isEndInclusive(this.bounds) \/ isStartInclusive(other.bounds)
    ELSE IF other.endTime = this.startTime
    THEN isEndInclusive(other.bounds) \/ isStartInclusive(this.bounds)
    ELSE IF this.endTime < other.startTime \/ other.endTime < this.startTime THEN FALSE
    ELSE TRUE

overlaps(this, other) ==
    LET thisStartInclusive == isStartInclusive(this.bounds)
        thisEndInclusive == isEndInclusive(this.bounds)
        otherStartInclusive == isStartInclusive(other.bounds)
        otherEndInclusive == isEndInclusive(other.bounds)
    IN IF this.endTime = other.startTime THEN thisEndInclusive /\ otherStartInclusive
       ELSE IF other.endTime = this.startTime THEN otherEndInclusive /\ thisStartInclusive
       ELSE IF this.endTime < other.startTime \/ other.endTime < this.startTime THEN FALSE
       ELSE TRUE

Day_overlaps(this, other) ==
    IF this.endTime < other.startTime \/ other.endTime < this.startTime THEN FALSE
    ELSE IF this.endTime = other.startTime
         THEN isEndInclusive(this.bounds) /\ isStartInclusive(other.bounds)
    ELSE IF other.endTime = this.startTime
         THEN isEndInclusive(other.bounds) /\ isStartInclusive(this.bounds)
    ELSE TRUE

Overlaps(v, this, other) == IF v = "day" THEN Day_overlaps(this, other) ELSE overlaps(this, other)

\* containment of the two point sets: the bounds of other count as well
containsAsSets(this, other) ==
    /\ this.startTime < other.startTime
          \/ (this.startTime = other.startTime
                /\ (isStartInclusive(this.bounds) \/ ~isStartInclusive(other.bounds)))
    /\ this.endTime > other.endTime
          \/ (this.endTime = other.endTime
                /\ (isEndInclusive(this.bounds) \/ ~isEndInclusive(other.bounds)))

contains(this, other) ==
    LET thisStartValid ==
            IF this.bounds = IncludeStartExcludeEnd \/ this.bounds = IncludeAll
            THEN this.startTime <= other.startTime
            ELSE this.startTime < other.startTime
        thisEndValid ==
            IF this.bounds = ExcludeStartIncludeEnd \/ this.bounds = IncludeAll
            THEN this.endTime >= other.endTime
            ELSE this.endTime > other.endTime
    IN thisStartValid /\ thisEndValid

containsDate(this, timestamp) ==
    LET startValid ==
            IF this.bounds = IncludeStartExcludeEnd \/ this.bounds = IncludeAll
            THEN this.startTime <= timestamp
            ELSE this.startTime < timestamp
        endValid ==
            IF this.bounds = ExcludeStartIncludeEnd \/ this.bounds = IncludeAll
            THEN this.endTime >= timestamp
            ELSE this.endTime > timestamp
    IN startValid /\ endValid

\* touching in one direction only: this ends where other starts
touchesForward(this, other) == this.endTime = other.startTime

touches(this, other) ==
    (this.endTime = other.startTime) \/ (other.endTime = this.startTime)

abuts(v, this, other) ==
    IF this.endTime # other.startTime /\ other.endTime # this.startTime
    THEN FALSE
    ELSE ~Overlaps(v, this, other)

equals(this, other) ==
    /\ this.startTime = other.startTime
    /\ this.endTime = other.endTime
    /\ this.bounds = other.bounds

startingOn(v, this, start) == NewPeriod(v, start, this.endTime, this.bounds, Fresh)

endingOn(v, this, end) == NewPeriod(v, this.startTime, end, this.bounds, Fresh)

withBounds(v, this, bounds) == NewPeriod(v, this.startTime, this.endTime, bounds, Fresh)

\* _reset(start, end, bounds) assigns the fields of this in place: self is this
\* after the call, out what the call returned (nothing) or threw
_resetWriteFirst(v, this, start, end, bounds) ==
    LET startTime == Normalize(v, start)
        endTime == Normalize(v, end)
        written == [this EXCEPT !.startTime = startTime, !.endTime = endTime, !.bounds = bounds]
    IN IF startTime >= endTime
         THEN [self |-> written, out |-> Throw(InvalidRange)]
         ELSE [self |-> written, out |-> Null]

_reset(v, this, start, end, bounds) ==
    LET startTime == Normalize(v, start)
        endTime == Normalize(v, end)
    IN IF startTime >= endTime
         THEN [self |-> this, out |-> Throw(InvalidRange)]
         ELSE [self |-> [this EXCEPT !.startTime = startTime, !.endTime = endTime,
                                     !.bounds = bounds],
               out |-> Null]

\* new DurationInterval(milliseconds).milliseconds
DurationInterval(milliseconds) == IF milliseconds < 0 THEN -milliseconds ELSE milliseconds

withDuration(v, this, duration) ==
    NewPeriod(v, this.startTime, this.startTime + duration, this.bounds, Fresh)

move(v, this, duration) ==
    NewPeriod(v, this.startTime + duration, this.endTime + duration, this.bounds, Fresh)

moveBackward(v, this, duration) ==
    NewPeriod(v, this.startTime - duration, this.endTime - duration, this.bounds, Fresh)

\* duration.milliseconds * 0.5; the durations drawn are even
expand(v, this, duration) ==
    LET halfDuration == duration \div 2
    IN NewPeriod(v, this.startTime - halfDuration, this.endTime + halfDuration, this.bounds, Fresh)

isBefore(this, other) == this.endTime <= other.startTime

isAfter(this, other) == this.startTime >= other.endTime

\* a gap only when this comes first
gapAfterThis(v, this, other) ==
    IF Overlaps(v, this, other) \/ touches(this, other) THEN Null
    ELSE IF isBefore(this, other)
         THEN NewPeriod(v, this.endTime, other.startTime, this.bounds, Fresh)
    ELSE Null

gap(v, this, other) ==
    IF Overlaps(v, this, other) \/ touches(this, other) THEN Null
    ELSE IF isBefore(this, other)
         THEN NewPeriod(v, this.endTime, other.startTime, this.bounds, Fresh)
    ELSE IF isAfter(this, other)
         THEN NewPeriod(v, other.endTime, this.startTime, this.bounds, Fresh)
    ELSE Null

\* touching periods merge only when both touching boundaries are inclusive
canMergeBothInclusive(this, other) ==
    IF ~touches(this, other) THEN FALSE
    ELSE IF this.endTime = other.startTime
         THEN isEndInclusive(this.bounds) /\ isStartInclusive(other.bounds)
    ELSE IF other.endTime = this.startTime
         THEN isEndInclusive(other.bounds) /\ isStartInclusive(this.bounds)
    ELSE FALSE

canMergeConsecutiveDays(this, other) ==
    IF ~touches(this, other) THEN FALSE
    ELSE IF this.endTime = other.startTime
         THEN isEndInclusive(this.bounds) \/ isStartInclusive(other.bounds)
    ELSE IF other.endTime = this.startTime
         THEN isEndInclusive(other.bounds) \/ isStartInclusive(this.bounds)
    ELSE FALSE

intersection(v, this, other) ==
    IF ~Overlaps(v, this, other) THEN Null
    ELSE NewPeriod(v, Max(this.startTime, other.startTime),
                   Min(this.endTime, other.endTime), this.bounds, Fresh)

\* the union ending where other ends, however far this reaches
Period_unionToOtherEnd(v, this, other) ==
    NewPeriod(v, Min(this.startTime, other.startTime), other.endTime, this.bounds, Fresh)

Period_union(v, this, other) ==
    IF ~Overlaps(v, this, other) /\ ~canMergeConsecutiveDays(this, other) THEN Null
    ELSE NewPeriod(v, Min(this.startTime, other.startTime),
                   Max(this.endTime, other.endTime), this.bounds, Fresh)

-----------------------------------------------------------------------------
(* Sequence *)

\* Sequence.merge calls canMergeConsecutiveDays and union, which only the
\* day-precision Period class defines: that is the class a Sequence holds
Linked == "day"

OutOfBounds == "out of bounds"

Undefined == <<>>

\* an object as the constructor leaves it: the caches are not set
SeqObj(periods, sorted) ==
    [periods |-> periods, sorted |-> sorted,
     _count |-> Undefined, _isEmpty |-> Undefined, _totalDuration |-> Undefined,
     _boundaries |-> Undefined, _gaps |-> Undefined]

\* [start bracket, ISO start date, ISO end date, end bracket] of toString(), as
\* the ranks of its characters: '(' sorts before '[' and ')' before ']'
toString(x) ==
    <<IF isStartInclusive(x.bounds) THEN 1 ELSE 0, x.startTime, x.endTime,
      IF isEndInclusive(x.bounds) THEN 1 ELSE 0>>

RECURSIVE LexCompare(_, _, _)
LexCompare(k, a, b) ==
    IF k > Len(a) THEN 0
    ELSE IF a[k] # b[k] THEN a[k] - b[k]
    ELSE LexCompare(k + 1, a, b)

\* the comparators handed to Array.prototype.sort; "default" is sort() without
\* one, which orders by the elements' string forms
Compare(f, a, b) ==
    CASE f = "byStart" -> a.startTime - b.startTime
      [] f = "byDuration" -> (a.endTime - a.startTime) - (b.endTime - b.startTime)
      [] f = "default" -> LexCompare(1, toString(a), toString(b))

Comparators == {"byStart", "byDuration", "default"}

\* x put before the elements that already compare equal to it
InsertUnstable(f, sorted, x) ==
    LET before == {i \in 1..Len(sorted) : Compare(f, sorted[i], x) < 0}
        n == Cardinality(before)
    IN SubSeq(sorted, 1, n) \o <<x>> \o SubSeq(sorted, n + 1, Len(sorted))

\* x put after every element that does not compare greater than it
Insert(f, sorted, x) ==
    LET before == {i \in 1..Len(sorted) : Compare(f, sorted[i], x) <= 0}
        n == Cardinality(before)
    IN SubSeq(sorted, 1, n) \o <<x>> \o SubSeq(sorted, n + 1, Len(sorted))

\* Array.prototype.sort(compareFn) on a copy: a stable sort
RECURSIVE ArraySort(_, _)
ArraySort(f, array) ==
    IF Len(array) = 0 THEN <<>>
    ELSE Insert(f, ArraySort(f, SubSeq(array, 1, Len(array) - 1)), array[Len(array)])

\* new Sequence(periods, preserveOrder)
Sequence(periods, preserveOrder) ==
    IF Len(periods) = 0 THEN SeqObj(<<>>, TRUE)
    ELSE IF ~preserveOrder THEN SeqObj(ArraySort("byStart", periods), TRUE)
    ELSE SeqObj(periods, FALSE)

\* Sequence.empty(): new Sequence()
empty == Sequence(<<>>, FALSE)

\* what a method leaves behind: the receiver and the argument afterwards, the
\* value returned or thrown, and whether that value is the receiver ("this"),
\* the argument ("other") or a new object ("new")
Ret(self, other, out, alias) == [self |-> self, other |-> other, out |-> out, alias |-> alias]

\* count() and isEmpty(): the value returned, and the receiver with its cache set
count(this) == IF this._count = Undefined THEN Len(this.periods) ELSE this._count[1]

count_cached(this) ==
    IF this._count = Undefined THEN [this EXCEPT !._count = <<Len(this.periods)>>] ELSE this

isEmpty(this) == IF this._isEmpty = Undefined THEN Len(this.periods) = 0 ELSE this._isEmpty[1]

isEmpty_cached(this) ==
    IF this._isEmpty = Undefined THEN [this EXCEPT !._isEmpty = <<Len(this.periods) = 0>>]
    ELSE this

RECURSIVE LatestEnd(_, _, _)
LatestEnd(periods, i, latestEnd) ==
    IF i > Len(periods) THEN latestEnd
    ELSE LatestEnd(periods, i + 1,
                   IF periods[i].endTime > latestEnd THEN periods[i].endTime ELSE latestEnd)

\* boundaries(): [self, out]; this.first() of an empty array is undefined, and
\* reading its startTime is a TypeError
boundaries(this) ==
    LET t == isEmpty_cached(this)
    IN IF isEmpty(this) THEN [self |-> t, out |-> Null]
       ELSE IF t._boundaries # Undefined THEN [self |-> t, out |-> t._boundaries[1]]
       ELSE IF Len(t.periods) = 0 THEN [self |-> t, out |-> Throw("TypeError")]
       ELSE LET first == t.periods[1]
                last == t.periods[Len(t.periods)]
                b == NewPeriod(Linked, first.startTime,
                               LatestEnd(t.periods, 1, last.endTime), first.bounds, Fresh)
            IN IF IsThrown(b) THEN [self |-> t, out |-> b]
               ELSE [self |-> [t EXCEPT !._boundaries = <<b>>], out |-> b]

\* the array a loop has built, when no constructor in it threw
Built(array) == [array |-> array]

\* the loop of gaps over the index-adjacent pairs: the array built, or the
\* error the Period constructor threw
RECURSIVE GapsLoop(_, _, _)
GapsLoop(periods, i, gaps) ==
    IF i > Len(periods) - 1 THEN Built(gaps)
    ELSE LET current == periods[i]
             next == periods[i + 1]
         IN IF ~Overlaps(Linked, current, next) /\ ~touches(current, next)
            THEN LET made == NewPeriod(Linked, current.endTime, next.startTime,
                                       current.bounds, Fresh)
                 IN IF IsThrown(made) THEN made
                    ELSE GapsLoop(periods, i + 1, Append(gaps, made))
            ELSE GapsLoop(periods, i + 1, gaps)

\* gaps() that stops looking after the first pair
gapsFirstPairOnly(this) ==
    IF this._gaps # Undefined THEN Ret(this, Null, this._gaps[1], "cache")
    ELSE LET e == isEmpty_cached(this)
             self == IF isEmpty(this) THEN e ELSE count_cached(e)
         IN IF isEmpty(this) \/ count(e) = 1
            THEN Ret([self EXCEPT !._gaps = <<empty>>], Null, empty, "cache")
            ELSE LET gaps == GapsLoop(SubSeq(this.periods, 1, 2), 1, <<>>)
                 IN IF IsThrown(gaps) THEN Ret(self, Null, gaps, "new")
                    ELSE Ret([self EXCEPT !._gaps = <<Sequence(gaps.array, FALSE)>>], Null,
                             Sequence(gaps.array, FALSE), "cache")

\* gaps(): the Sequence returned is the one kept in _gaps
gaps(this) ==
    IF this._gaps # Undefined THEN Ret(this, Null, this._gaps[1], "cache")
    ELSE LET e == isEmpty_cached(this)
             self == IF isEmpty(this) THEN e ELSE count_cached(e)
         IN IF isEmpty(this) \/ count(e) = 1
            THEN Ret([self EXCEPT !._gaps = <<empty>>], Null, empty, "cache")
            ELSE LET gaps == GapsLoop(this.periods, 1, <<>>)
                 IN IF IsThrown(gaps) THEN Ret(self, Null, gaps, "new")
                    ELSE Ret([self EXCEPT !._gaps = <<Sequence(gaps.array, FALSE)>>], Null,
                             Sequence(gaps.array, FALSE), "cache")

\* the Set<Period> of union: membership is object identity
RECURSIVE Dedup(_, _, _)
Dedup(periods, i, combined) ==
    IF i > Len(periods) THEN combined
    ELSE LET period == periods[i]
             seen == \E k \in 1..Len(combined) : combined[k] = period
         IN Dedup(periods, i + 1, IF seen THEN combined ELSE Append(combined, period))

union(this, other) ==
    IF isEmpty(this) THEN Ret(isEmpty_cached(this), other, other, "other")
    ELSE IF isEmpty(other)
         THEN Ret(isEmpty_cached(this), isEmpty_cached(other), isEmpty_cached(this), "this")
    ELSE LET combined == Dedup(other.periods, 1, Dedup(this.periods, 1, <<>>))
         IN Ret(isEmpty_cached(this), isEmpty_cached(other), Sequence(combined, FALSE), "new")

\* the span from the earlier start to the later end, where the code takes the
\* later start and the earlier end
CommonSpan(thisPeriod, otherPeriod) ==
    LET maxStart == Min(thisPeriod.startTime, otherPeriod.startTime)
        minEnd == Max(thisPeriod.endTime, otherPeriod.endTime)
    IN IF maxStart < minEnd
       THEN NewPeriod(Linked, maxStart, minEnd, thisPeriod.bounds, Fresh)
       ELSE Null

\* one step of intersect: the Period pushed for the pair, Null when none is
Common(thisPeriod, otherPeriod) ==
    LET maxStart == Max(thisPeriod.startTime, otherPeriod.startTime)
        minEnd == Min(thisPeriod.endTime, otherPeriod.endTime)
    IN IF maxStart < minEnd
       THEN NewPeriod(Linked, maxStart, minEnd, thisPeriod.bounds, Fresh)
       ELSE Null

\* the two-pointer loop of intersect: the array built, or the error thrown
RECURSIVE IntersectLoop(_, _, _, _, _)
IntersectLoop(thisArray, otherArray, i, j, intersections) ==
    IF ~(i <= Len(thisArray) /\ j <= Len(otherArray)) THEN Built(intersections)
    ELSE LET thisPeriod == thisArray[i]
             otherPeriod == otherArray[j]
             made == Common(thisPeriod, otherPeriod)
             pushed == IF IsPeriod(made) THEN Append(intersections, made) ELSE intersections
         IN IF IsThrown(made) THEN made
            ELSE IF thisPeriod.endTime <= otherPeriod.endTime
                 THEN IntersectLoop(thisArray, otherArray, i + 1, j, pushed)
                 ELSE IntersectLoop(thisArray, otherArray, i, j + 1, pushed)

intersect(this, other) ==
    IF isEmpty(this) THEN Ret(isEmpty_cached(this), other, empty, "new")
    ELSE IF isEmpty(other)
         THEN Ret(isEmpty_cached(this), isEmpty_cached(other), empty, "new")
    ELSE LET intersections == IntersectLoop(this.periods, other.periods, 1, 1, <<>>)
         IN Ret(isEmpty_cached(this), isEmpty_cached(other),
                IF IsThrown(intersections) THEN intersections
                ELSE Sequence(intersections.array, TRUE), "new")

\* the inner scan of subtract over other's periods: does thisPeriod overlap one?
RECURSIVE HasOverlap(_, _, _)
HasOverlap(thisPeriod, otherPeriods, k) ==
    IF k > Len(otherPeriods) THEN FALSE
    ELSE IF otherPeriods[k].startTime >= thisPeriod.endTime THEN FALSE
    ELSE IF Overlaps(Linked, thisPeriod, otherPeriods[k]) THEN TRUE
    ELSE HasOverlap(thisPeriod, otherPeriods, k + 1)

RECURSIVE SubtractLoop(_, _, _, _, _)
SubtractLoop(periods, i, otherBoundaries, otherPeriods, remaining) ==
    IF i > Len(periods) THEN remaining
    ELSE LET thisPeriod == periods[i]
             outside == \/ thisPeriod.endTime <= otherBoundaries.startTime
                        \/ thisPeriod.startTime >= otherBoundaries.endTime
             keep == outside \/ ~HasOverlap(thisPeriod, otherPeriods, 1)
         IN SubtractLoop(periods, i + 1, otherBoundaries, otherPeriods,
                         IF keep THEN Append(remaining, thisPeriod) ELSE remaining)

\* a subtraction that removes nothing
subtractNothing(this, other) == Ret(isEmpty_cached(this), other, isEmpty_cached(this), "this")

subtract(this, other) ==
    IF isEmpty(this) THEN Ret(isEmpty_cached(this), other, empty, "new")
    ELSE IF isEmpty(other)
         THEN Ret(isEmpty_cached(this), isEmpty_cached(other), isEmpty_cached(this), "this")
    ELSE LET b == boundaries(isEmpty_cached(other))
             self == isEmpty_cached(this)
         IN IF IsThrown(b.out) THEN Ret(self, b.self, b.out, "new")
            ELSE IF IsNull(b.out) THEN Ret(self, b.self, self, "this")
            ELSE Ret(self, b.self,
                     Sequence(SubtractLoop(this.periods, 1, b.out, other.periods, <<>>), TRUE),
                     "new")

\* the sweep of merge: [current, merged] after periods[i..]
RECURSIVE MergeLoop(_, _, _, _)
MergeLoop(periods, i, current, merged) ==
    IF i > Len(periods) THEN Built(Append(merged, current))
    ELSE LET next == periods[i]
         IN IF Overlaps(Linked, current, next) \/ canMergeConsecutiveDays(current, next)
            THEN LET mergedPeriod == Period_union(Linked, current, next)
                 IN IF IsThrown(mergedPeriod) THEN mergedPeriod
                    ELSE IF IsPeriod(mergedPeriod)
                         THEN MergeLoop(periods, i + 1, mergedPeriod, merged)
                    ELSE MergeLoop(periods, i + 1, next, Append(merged, current))
            ELSE MergeLoop(periods, i + 1, next, Append(merged, current))

merge(this) ==
    LET e == isEmpty_cached(this)
        self == IF isEmpty(this) THEN e ELSE count_cached(e)
    IN IF isEmpty(this) \/ count(e) = 1 THEN Ret(self, Null, self, "this")
       ELSE LET merged == MergeLoop(this.periods, 2, this.periods[1], <<>>)
            IN Ret(self, Null,
                   IF IsThrown(merged) THEN merged ELSE Sequence(merged.array, TRUE), "new")

\* what a method that only reads this._periods leaves behind
New(this, out) == Ret(this, Null, out, "new")

\* sort(compareFn): the copy is sorted, not this._periods
sort(this, compareFn) == New(this, Sequence(ArraySort(compareFn, this.periods), TRUE))

\* the receiver whatever its flag
sortByStartDateAlwaysThis(this) == Ret(this, Null, this, "this")

sortByStartDate(this) ==
    IF this.sorted THEN Ret(this, Null, this, "this") ELSE sort(this, "byStart")

\* a push that appends to the receiver's own array, as Array.prototype.push does
pushInPlace(this, period) ==
    New(Sequence(Append(this.periods, period), TRUE),
        Sequence(Append(this.periods, period), TRUE))

push(this, period) == New(this, Sequence(Append(this.periods, period), TRUE))

unshift(this, period) == New(this, Sequence(<<period>> \o this.periods, TRUE))

\* a negative index counts from the end (indices are zero-based, as in the code)
\* an index taken as given, negative or not
NormalizeIndexNever(len, index) == index

NormalizeIndex(len, index) == IF index < 0 THEN len + index ELSE index

insert(this, index0, period) ==
    LET len == Len(this.periods)
        index == NormalizeIndex(len, index0)
    IN IF index < 0 \/ index > len THEN New(this, Throw(OutOfBounds))
       ELSE New(this, Sequence(SubSeq(this.periods, 1, index) \o <<period>>
                               \o SubSeq(this.periods, index + 1, len), TRUE))

set(this, index0, period) ==
    LET len == Len(this.periods)
        index == NormalizeIndex(len, index0)
    IN IF index < 0 \/ index >= len THEN New(this, Throw(OutOfBounds))
       ELSE New(this, Sequence([this.periods EXCEPT ![index + 1] = period], TRUE))

\* remove(index): Object.assign(this, new Sequence(newPeriods, true)) copies the
\* own enumerable properties of the new object. Whether the cache fields, which
\* the class declares without initializers, are own properties of it (holding
\* undefined) is the compiler's class-field emit (useDefineForClassFields): with
\* it they are copied and the caches are cleared, without it only _periods and
\* _sorted are copied and the caches stay as they were.
remove(this, index0, useDefineForClassFields) ==
    LET len == Len(this.periods)
        index == NormalizeIndex(len, index0)
    IN IF index < 0 \/ index >= len THEN New(this, Throw(OutOfBounds))
       ELSE LET made == Sequence(SubSeq(this.periods, 1, index)
                                 \o SubSeq(this.periods, index + 2, len), TRUE)
            IN Ret(IF useDefineForClassFields THEN made
                   ELSE [this EXCEPT !.periods = made.periods, !.sorted = made.sorted],
                   Null, this.periods[index + 1], "member")

\* get(index): no negative indexing
get(this, index) ==
    IF index < 0 \/ index >= Len(this.periods) THEN New(this, Throw(OutOfBounds))
    ELSE Ret(this, Null, this.periods[index + 1], "member")

RECURSIVE TotalMs(_, _, _)
TotalMs(periods, i, totalMs) ==
    IF i > Len(periods) THEN totalMs
    ELSE TotalMs(periods, i + 1, totalMs + (periods[i].endTime - periods[i].startTime))

totalDuration(this) ==
    IF this._totalDuration = Undefined
    THEN LET totalMs == TotalMs(this.periods, 1, 0)
         IN Ret([this EXCEPT !._totalDuration = <<totalMs>>], Null, totalMs, "value")
    ELSE Ret(this, Null, this._totalDuration[1], "value")

clear(this) == New(this, empty)

\* equals(other): the same number of periods, each equal to the one at its index
Sequence_equals(this, other) ==
    IF count(this) # count(other) THEN FALSE
    ELSE \A i \in DOMAIN this.periods : equals(this.periods[i], other.periods[i])

\* the cached aggregates, by name
Aggregates == {"count", "isEmpty", "totalDuration", "boundaries", "gaps"}

Query(name, this) ==
    CASE name = "count" -> Ret(count_cached(this), Null, count(this), "value")
      [] name = "isEmpty" -> Ret(isEmpty_cached(this), Null, isEmpty(this), "value")
      [] name = "totalDuration" -> totalDuration(this)
      [] name = "boundaries" -> Ret(boundaries(this).self, Null, boundaries(this).out, "cache")
      [] name = "gaps" -> gaps(this)

\* toArray(): a new array with the same elements: it is not this._periods
\* (backing), and so not frozen as that one is
toArray(this) == [elems |-> this.periods, backing |-> FALSE, frozen |-> FALSE]

-----------------------------------------------------------------------------
(* Inputs of the Period operations *)

\* timestamps handed to the constructors: midnights and noons of days 0..MaxDay
Times == {d * DAY + h * HalfDay : d \in 0..MaxDay, h \in {0, 1}}

\* instants of the time line between them (every quarter of a day)
Instants == {k * (HalfDay \div 2) : k \in 0..(4 * (MaxDay + 1))}

Durations == {DurationInterval(m) : m \in {-(2 * DAY), 0, HalfDay, DAY}}

Variants == {"ms", "day"}

\* the Period objects the constructor of variant v can produce from Times
PeriodsOf(v) ==
    {x \in {NewPeriod(v, s, e, b, Given) : s \in Times, e \in Times, b \in Bounds} : IsPeriod(x)}

MsPeriods == PeriodsOf("ms")

DayPeriods == PeriodsOf("day")

Periods(v) == IF v = "day" THEN DayPeriods ELSE MsPeriods

Bool(b) == [bool |-> b]

NoOp == [name |-> "none"]

-----------------------------------------------------------------------------
(* The Period operations as actions.  p is constructed once; every method  *)
(* is then applied to it.                                                  *)

SeqIdle == UNCHANGED <<s1, arg, res, op, caller, pool>>

\* a method that returns a value and has no access to the fields of this
PReady == pop.name = "new" /\ IsPeriod(p)

PReturn(call, value) ==
    /\ pop' = call
    /\ pout' = value
    /\ UNCHANGED <<variant, p>>
    /\ SeqIdle

P_startingOn ==
    /\ PReady
    /\ \E t \in Times :
           PReturn([name |-> "startingOn", start |-> t], startingOn(variant, p, t))

P_endingOn ==
    /\ PReady
    /\ \E t \in Times :
           PReturn([name |-> "endingOn", end |-> t], endingOn(variant, p, t))

P_withBounds ==
    /\ PReady
    /\ \E b \in Bounds :
           PReturn([name |-> "withBounds", bounds |-> b], withBounds(variant, p, b))

P_withDuration ==
    /\ PReady
    /\ \E d \in Durations :
           PReturn([name |-> "withDuration", duration |-> d], withDuration(variant, p, d))

P_move ==
    /\ PReady
    /\ \E d \in Durations :
           PReturn([name |-> "move", duration |-> d], move(variant, p, d))

P_moveBackward ==
    /\ PReady
    /\ \E d \in Durations :
           PReturn([name |-> "moveBackward", duration |-> d], moveBackward(variant, p, d))

P_expand ==
    /\ PReady
    /\ \E d \in Durations :
           PReturn([name |-> "expand", duration |-> d], expand(variant, p, d))

P_overlaps ==
    /\ PReady
    /\ \E o \in Periods(variant) :
           PReturn([name |-> "overlaps", other |-> o], Bool(Overlaps(variant, p, o)))

P_contains ==
    /\ PReady
    /\ \E o \in Periods(variant) :
           PReturn([name |-> "contains", other |-> o], Bool(contains(p, o)))

P_containsDate ==
    /\ PReady
    /\ \E t \in Instants :
           PReturn([name |-> "containsDate", date |-> t], Bool(containsDate(p, t)))

P_touches ==
    /\ PReady
    /\ \E o \in Periods(variant) :
           PReturn([name |-> "touches", other |-> o], Bool(touches(p, o)))

P_abuts ==
    /\ PReady
    /\ \E o \in Periods(variant) :
           PReturn([name |-> "abuts", other |-> o], Bool(abuts(variant, p, o)))

P_equals ==
    /\ PReady
    /\ \E o \in Periods(variant) :
           PReturn([name |-> "equals", other |-> o], Bool(equals(p, o)))

P_isBefore ==
    /\ PReady
    /\ \E o \in Periods(variant) :
           PReturn([name |-> "isBefore", other |-> o], Bool(isBefore(p, o)))

P_isAfter ==
    /\ PReady
    /\ \E o \in Periods(variant) :
           PReturn([name |-> "isAfter", other |-> o], Bool(isAfter(p, o)))

P_gap ==
    /\ PReady
    /\ \E o \in Periods(variant) :
           PReturn([name |-> "gap", other |-> o], gap(variant, p, o))

\* intersection, union and canMergeConsecutiveDays exist on the day-precision class only
P_intersection ==
    /\ PReady
    /\ variant = "day"
    /\ \E o \in Periods(variant) :
        PReturn([name |-> "intersection", other |-> o], intersection(variant, p, o))

P_union ==
    /\ PReady
    /\ variant = "day"
    /\ \E o \in Periods(variant) :
        PReturn([name |-> "union", other |-> o], Period_union(variant, p, o))

P_canMergeConsecutiveDays ==
    /\ PReady
    /\ variant = "day"
    /\ \E o \in Periods(variant) :
        PReturn([name |-> "canMergeConsecutiveDays", other |-> o],
                Bool(canMergeConsecutiveDays(p, o)))

\* FastBounds.touchingOverlaps on the bounds of this and of another Period
P_touchingOverlaps ==
    /\ PReady
    /\ \E o \in Periods(variant) :
        PReturn([name |-> "touchingOverlaps", other |-> o],
                Bool(touchingOverlaps(p.bounds, o.bounds)))

\* the pool's in-place reset: the one operation that writes the fields of this
P_reset ==
    /\ PReady
    /\ \E s \in Times, e \in Times, b \in Bounds :
        LET r == _reset(variant, p, s, e, b)
        IN /\ pop' = [name |-> "_reset", start |-> s, end |-> e, bounds |-> b]
           /\ pout' = r.out
           /\ p' = r.self
    /\ UNCHANGED variant
    /\ SeqIdle

InitP ==
    /\ variant \in Variants
    /\ \E s \in Times, e \in Times, b \in Bounds :
        /\ pop = [name |-> "new", start |-> s, end |-> e, bounds |-> b]
        /\ pout = NewPeriod(variant, s, e, b, Given)
        /\ p = IF IsThrown(pout) THEN Null ELSE pout
    /\ s1 = Null
    /\ arg = Null
    /\ res = Null
    /\ op = "none"
    /\ caller = Null
    /\ pool = Null

NextP ==
    \/ P_startingOn
    \/ P_endingOn
    \/ P_withBounds
    \/ P_withDuration
    \/ P_move
    \/ P_moveBackward
    \/ P_expand
    \/ P_overlaps
    \/ P_contains
    \/ P_containsDate
    \/ P_touches
    \/ P_abuts
    \/ P_equals
    \/ P_isBefore
    \/ P_isAfter
    \/ P_gap
    \/ P_intersection
    \/ P_union
    \/ P_canMergeConsecutiveDays
    \/ P_touchingOverlaps
    \/ P_reset

SpecPeriod == InitP /\ [][NextP]_vars

-----------------------------------------------------------------------------
(* Properties of the Period operations *)

\* every Period object in the state: the receiver, the argument, the result
PeriodsInState ==
    {x \in {p, pout} \cup (IF "other" \in DOMAIN pop THEN {pop.other} ELSE {}) : IsPeriod(x)}

\* C2: every Period that exists after any operation (the constructor, the
\* transformations, gap, intersection, union, the pool's _reset) has
\* startTime < endTime.
C2_StartBeforeEnd == \A x \in PeriodsInState : x.startTime < x.endTime

\* the pool has reset a Period in place and a transformation has built one
C2_Witness == pop.name = "_reset" /\ IsNull(pout) /\ p.startTime # pop.end

\* the endpoints and bounds the operation recorded in pop hands to the constructor
Requested ==
    LET n == pop.name
    IN CASE n \in {"new", "_reset"} ->
              <<Normalize(variant, pop.start), Normalize(variant, pop.end), pop.bounds>>
         [] n = "startingOn" -> <<Normalize(variant, pop.start), p.endTime, p.bounds>>
         [] n = "endingOn" -> <<p.startTime, Normalize(variant, pop.end), p.bounds>>
         [] n = "withBounds" -> <<p.startTime, p.endTime, pop.bounds>>
         [] n = "withDuration" ->
              <<p.startTime, Normalize(variant, p.startTime + pop.duration), p.bounds>>
         [] n = "move" ->
              <<Normalize(variant, p.startTime + pop.duration),
                Normalize(variant, p.endTime + pop.duration), p.bounds>>
         [] n = "moveBackward" ->
              <<Normalize(variant, p.startTime - pop.duration),
                Normalize(variant, p.endTime - pop.duration), p.bounds>>
         [] n = "expand" ->
              <<Normalize(variant, p.startTime - pop.duration \div 2),
                Normalize(variant, p.endTime + pop.duration \div 2), p.bounds>>
         [] n = "intersection" ->
              <<Max(p.startTime, pop.other.startTime), Min(p.endTime, pop.other.endTime),
                p.bounds>>

Transformations ==
    {"startingOn", "endingOn", "withBounds", "withDuration", "move", "moveBackward", "expand"}

C3_Outcome ==
    LET n == pop.name
        built == IF n = "new" THEN p ELSE pout
    IN /\ IsThrown(pout) => pout.message = InvalidRange
       /\ n \in Transformations \cup {"new"} =>
            /\ IsThrown(pout) <=> Requested[1] >= Requested[2]
            /\ ~IsThrown(pout) =>
                 /\ built.startTime = Requested[1]
                 /\ built.endTime = Requested[2]
                 /\ built.bounds = Requested[3]
                 /\ variant = "ms" /\ n = "new" =>
                      built.startTime = pop.start /\ built.endTime = pop.end
       /\ n = "_reset" =>
            /\ IsThrown(pout) <=> Requested[1] >= Requested[2]
            /\ ~IsThrown(pout) =>
                 /\ p.startTime = Requested[1]
                 /\ p.endTime = Requested[2]
                 /\ p.bounds = Requested[3]
       /\ n = "intersection" =>
            (IsThrown(pout) <=>
                Overlaps(variant, p, pop.other) /\ Requested[1] >= Requested[2])
       /\ n \notin Transformations \cup {"new", "_reset", "intersection"} => ~IsThrown(pout)

\* C3: the constructor raises 'Start date must be before end date' exactly when
\* the normalized start >= the normalized end and otherwise builds the Period
\* with the given endpoints and bounds; a transformation (or _reset) whose
\* result would have start >= end raises the same error and leaves the
\* receiver's fields unchanged; nothing raises for another reason.
C3_RaisesExactlyOnInvalidRange ==
    /\ []C3_Outcome
    /\ [][IsThrown(pout') => p' = p]_vars

\* a transformation and a reset have raised on a receiver that exists
C3_Witness == pop.name = "_reset" /\ IsThrown(pout) /\ IsPeriod(p)

\* C4: a.overlaps(b) is true iff some instant of the (dense) time line lies in
\* both a and b under containsDate; touching periods overlap iff the touching
\* end and the touching start are both inclusive.
C4_OverlapsIffShareInstant ==
    pop.name = "overlaps" =>
        (pout.bool <=>
            \E t \in Instants : containsDate(p, t) /\ containsDate(pop.other, t))

\* two touching periods that overlap at their one shared instant
C4_Witness ==
    /\ pop.name = "overlaps"
    /\ p.endTime = pop.other.startTime
    /\ pout.bool
    /\ variant = "ms"

-----------------------------------------------------------------------------
(* The Sequence operations as actions.  s1 is constructed once from an     *)
(* array of day-precision Periods; every method is then applied to it.     *)
(* arg is what the call was given, res what it returned, caller an array   *)
(* the calling code holds.                                                 *)

\* the Periods the sequences are built from: whole days 0..SeqMaxDay
SeqPeriods == {x \in DayPeriods : x.endTime <= SeqMaxDay * DAY}

ArraysOf(S, n) == UNION {[1..k -> S] : k \in 0..n}

Arrays == ArraysOf(SeqPeriods, MaxLen)

\* the Sequences handed to the binary operations, which read the argument's
\* _periods and caches and never its _sorted flag: every array, in start order
\* or not, is the _periods of one of them
Others == {Sequence(a, TRUE) : a \in Arrays}

\* the Periods handed to push, unshift, insert and set
NewcomerPeriods == {x \in SeqPeriods : x.bounds = IncludeStartExcludeEnd}

Indices == (0 - (MaxLen + 1))..(MaxLen + 1)

\* the same intervals as o's, constructed anew: equal values, other objects
Reallocated(o) ==
    [o EXCEPT !.periods = [i \in DOMAIN o.periods |-> [o.periods[i] EXCEPT !.ref = Copy]]]

\* union is also handed Sequences of Periods that the receiver cannot hold
UnionOthers == Others \cup {Reallocated(o) : o \in {x \in Others : Len(x.periods) <= MaxCopied}}

IsSequence(x) == "periods" \in DOMAIN x

PIdle == UNCHANGED <<variant, p, pop, pout, pool>>

\* the instance is ready for a call: just constructed, or held by the caller
\* after an earlier call
SReady == op \in {"new", "held"}

Result(out, alias) == [out |-> out, alias |-> alias]

\* a binary operation: the argument as given and as the call leaves it
Binary(name, given, r) ==
    /\ op' = name
    /\ s1' = r.self
    /\ arg' = [given |-> given, now |-> r.other]
    /\ res' = Result(r.out, r.alias)
    /\ UNCHANGED caller
    /\ PIdle

\* an operation on the receiver alone
Unary(name, given, r) ==
    /\ op' = name
    /\ s1' = r.self
    /\ arg' = given
    /\ res' = Result(r.out, r.alias)
    /\ UNCHANGED caller
    /\ PIdle

S_union ==
    /\ SReady
    /\ \E other \in UnionOthers : Binary("union", other, union(s1, other))

S_intersect ==
    /\ SReady
    /\ \E other \in Others : Binary("intersect", other, intersect(s1, other))

S_subtract ==
    /\ SReady
    /\ \E other \in Others : Binary("subtract", other, subtract(s1, other))

S_merge ==
    /\ SReady
    /\ Unary("merge", arg, merge(s1))

\* merge() of the Sequence the first merge() returned; first keeps that one
S_mergeAgain ==
    /\ op = "merge"
    /\ ~IsThrown(res.out)
    /\ LET r == merge(res.out)
       IN /\ op' = "merge.merge"
          /\ res' = [out |-> r.out, alias |-> r.alias, first |-> r.self]
          /\ s1' = IF res.alias = "this" THEN r.self ELSE s1
          /\ UNCHANGED <<arg, caller>>
          /\ PIdle

S_gaps ==
    /\ SReady
    /\ Unary("gaps", arg, gaps(s1))

S_boundaries ==
    /\ SReady
    /\ Unary("boundaries", arg, Ret(boundaries(s1).self, Null, boundaries(s1).out, "cache"))

S_get ==
    /\ SReady
    /\ \E index \in Indices : Unary("get", [index |-> index], get(s1, index))

S_remove ==
    /\ SReady
    /\ \E index \in Indices, useDefineForClassFields \in BOOLEAN :
         Unary("remove", [index |-> index, useDefineForClassFields |-> useDefineForClassFields],
               remove(s1, index, useDefineForClassFields))

S_sort ==
    /\ SReady
    /\ \E compareFn \in Comparators :
         Unary("sort", [compareFn |-> compareFn], sort(s1, compareFn))

S_push ==
    /\ SReady
    /\ \E period \in NewcomerPeriods :
         Unary("push", [period |-> period], push(s1, period))

S_unshift ==
    /\ SReady
    /\ \E period \in NewcomerPeriods :
         Unary("unshift", [period |-> period], unshift(s1, period))

S_insert ==
    /\ SReady
    /\ \E index \in Indices, period \in NewcomerPeriods :
         Unary("insert", [index |-> index, period |-> period], insert(s1, index, period))

S_set ==
    /\ SReady
    /\ \E index \in Indices, period \in NewcomerPeriods :
         Unary("set", [index |-> index, period |-> period], set(s1, index, period))

S_clear ==
    /\ SReady
    /\ Unary("clear", Null, clear(s1))

S_toArray ==
    /\ SReady
    /\ op' = "toArray"
    /\ caller' = toArray(s1)
    /\ res' = Null
    /\ UNCHANGED <<s1, arg>>
    /\ PIdle

\* the calling code pushes onto the array toArray() gave it, or pops from it;
\* on a frozen array either is a TypeError and nothing changes
C_mutate ==
    /\ op = "toArray"
    /\ \E period \in NewcomerPeriods, how \in {"push", "pop"} :
         LET elems == IF caller.frozen THEN caller.elems
                      ELSE IF how = "push" THEN Append(caller.elems, period)
                      ELSE SubSeq(caller.elems, 1, Len(caller.elems) - 1)
         IN /\ op' = "mutated"
            /\ arg' = [how |-> how, period |-> period]
            /\ caller' = [caller EXCEPT !.elems = elems]
            /\ s1' = IF caller.backing THEN [s1 EXCEPT !.periods = elems] ELSE s1
            /\ res' = IF caller.frozen THEN Throw("TypeError") ELSE Null
            /\ PIdle

\* new Sequence(periods, preserveOrder) for each of the arrays and both flags
Construct(arrays) ==
    /\ variant = Linked
    /\ p = Null /\ pop = NoOp /\ pout = Null
    /\ \E periods \in arrays, preserveOrder \in BOOLEAN :
         /\ s1 = Sequence(periods, preserveOrder)
         /\ arg = [periods |-> periods, preserveOrder |-> preserveOrder]
    /\ res = Null
    /\ op = "new"
    /\ caller = Null
    /\ pool = Null

Init == Construct(Arrays)

Next ==
    \/ S_union
    \/ S_intersect
    \/ S_subtract
    \/ S_merge
    \/ S_gaps
    \/ S_boundaries
    \/ S_get
    \/ S_remove
    \/ S_sort
    \/ S_push
    \/ S_unshift
    \/ S_insert
    \/ S_set
    \/ S_clear
    \/ S_toArray
    \/ C_mutate

Spec == Init /\ [][Next]_vars

\* merge() and merge() again, on the longer arrays that take three periods
MergeArrays == ArraysOf(SeqPeriods, MergeLen)

InitMerge == Construct(MergeArrays)

NextMerge ==
    \/ S_merge
    \/ S_mergeAgain

SpecMerge == InitMerge /\ [][NextMerge]_vars

(* PeriodPool: the singleton's pool array and counters.  heap holds the    *)
(* fields of the Period objects allocated so far, by identity.             *)

maxSize == 1000

PoolTimes == {0, HalfDay, DAY}

PoolBounds == {IncludeStartExcludeEnd, IncludeAll}

Allocated == {id \in 1..PoolObjects : IsPeriod(pool.heap[id])}

\* acquire(start, end, bounds) when the pool is not empty: pop, count the hit,
\* then _reset, which may throw
acquireHit(start, end, bounds) ==
    LET period == pool.pool[Len(pool.pool)]
        r == _reset(variant, pool.heap[period], start, end, bounds)
        thrown == IsThrown(r.out)
    IN [pool EXCEPT !.pool = SubSeq(pool.pool, 1, Len(pool.pool) - 1),
                    !.hits = pool.hits + 1,
                    !.heap = [pool.heap EXCEPT ![period] = r.self],
                    !.held = IF thrown THEN pool.held ELSE pool.held \cup {period},
                    !.streak = IF thrown THEN pool.streak ELSE Append(pool.streak, period),
                    !.acquired = IF thrown THEN pool.acquired ELSE pool.acquired + 1,
                    !.last = [name |-> "acquire", thrown |-> thrown,
                              out |-> IF thrown THEN r.out ELSE r.self,
                              overwrote |-> ~thrown /\ period \in pool.held]]

\* acquire(start, end, bounds) when the pool is empty: count the miss, then
\* new Period, which may throw; id is the identity of the new object
acquireMiss(start, end, bounds, id) ==
    LET made == NewPeriod(variant, start, end, bounds, id)
        thrown == IsThrown(made)
    IN [pool EXCEPT !.misses = pool.misses + 1,
                    !.heap = IF thrown THEN pool.heap ELSE [pool.heap EXCEPT ![id] = made],
                    !.held = IF thrown THEN pool.held ELSE pool.held \cup {id},
                    !.streak = IF thrown THEN pool.streak ELSE Append(pool.streak, id),
                    !.acquired = IF thrown THEN pool.acquired ELSE pool.acquired + 1,
                    !.last = [name |-> "acquire", thrown |-> thrown, out |-> made,
                              overwrote |-> FALSE]]

\* release(period); _clearCache() does nothing
release(period) ==
    [pool EXCEPT !.pool = IF Len(pool.pool) < maxSize THEN Append(pool.pool, period)
                          ELSE pool.pool,
                 !.held = pool.held \ {period},
                 !.streak = <<>>,
                 !.last = [name |-> "release", thrown |-> FALSE, out |-> Null,
                           overwrote |-> FALSE]]

\* clear()
PeriodPool_clear ==
    [pool EXCEPT !.pool = <<>>, !.hits = 0, !.misses = 0, !.acquired = 0,
                 !.last = [name |-> "clear", thrown |-> FALSE, out |-> Null,
                           overwrote |-> FALSE]]

NotPool == UNCHANGED <<variant, p, pop, pout, s1, arg, res, op, caller>>

Pool_acquire ==
    /\ pool.hits + pool.misses < MaxCalls
    /\ \E start \in PoolTimes, end \in PoolTimes, bounds \in PoolBounds :
         IF Len(pool.pool) > 0 THEN pool' = acquireHit(start, end, bounds)
         ELSE \E id \in 1..PoolObjects :
                 /\ id \notin Allocated
                 /\ \A lower \in 1..(id - 1) : lower \in Allocated
                 /\ pool' = acquireMiss(start, end, bounds, id)
    /\ NotPool

\* the caller releases any Period it has a reference to, held or released before
Pool_release ==
    /\ Len(pool.pool) < MaxPooled
    /\ \E period \in Allocated : pool' = release(period)
    /\ NotPool

Pool_clear ==
    /\ pool' = PeriodPool_clear
    /\ NotPool

InitPool ==
    /\ variant \in Variants
    /\ p = Null /\ pop = NoOp /\ pout = Null
    /\ s1 = Null /\ arg = Null /\ res = Null /\ op = "none" /\ caller = Null
    /\ pool = [pool |-> <<>>, hits |-> 0, misses |-> 0,
               heap |-> [id \in 1..PoolObjects |-> Null],
               held |-> {}, streak |-> <<>>, acquired |-> 0,
               last |-> [name |-> "new", thrown |-> FALSE, out |-> Null, overwrote |-> FALSE]]

NextPool ==
    \/ Pool_acquire
    \/ Pool_release
    \/ Pool_clear

SpecPool == InitPool /\ [][NextPool]_vars

------------------------------------------------------------------------------
\* s.subtract(o).intersect(o): intersect() of the Sequence subtract() returned
\* with the same argument; first keeps that Sequence
S_subtractIntersect ==
    /\ op = "subtract"
    /\ IsSequence(res.out)
    /\ LET r == intersect(res.out, arg.now)
       IN /\ op' = "subtract.intersect"
          /\ res' = [out |-> r.out, alias |-> r.alias, first |-> r.self]
          /\ s1' = IF res.alias = "this" THEN r.self ELSE s1
          /\ arg' = [arg EXCEPT !.now = r.other]
          /\ UNCHANGED caller
          /\ PIdle

NextAlgebra ==
    \/ S_subtract
    \/ S_subtractIntersect

SpecAlgebra == Init /\ [][NextAlgebra]_vars

\* chains of calls: the caller goes on with the Sequence a call returned
\* (s = s.push(p)), or with the receiver after remove() or a failed call
Chained == {"push", "unshift", "insert", "set", "sort", "sortByStartDate", "remove"}

S_sortByStartDate ==
    /\ SReady
    /\ Unary("sortByStartDate", Null, sortByStartDate(s1))

S_totalDuration ==
    /\ SReady
    /\ Unary("totalDuration", Null, totalDuration(s1))

\* the arguments of the binary operations in a chain: no or one period
ShortOthers == {Sequence(a, FALSE) : a \in ArraysOf(NewcomerPeriods, 1)}

T_union ==
    /\ SReady
    /\ \E other \in ShortOthers : Binary("union", other, union(s1, other))

T_intersect ==
    /\ SReady
    /\ \E other \in ShortOthers : Binary("intersect", other, intersect(s1, other))

T_subtract ==
    /\ SReady
    /\ \E other \in ShortOthers : Binary("subtract", other, subtract(s1, other))

C_reassign ==
    /\ op \in Chained
    /\ IsSequence(res.out) => Len(res.out.periods) <= ChainLen
    /\ op' = "held"
    /\ s1' = IF IsSequence(res.out) THEN res.out ELSE s1
    /\ arg' = Null
    /\ res' = Null
    /\ UNCHANGED caller
    /\ PIdle

InitChain == Construct(Arrays)

NextChain ==
    \/ S_push
    \/ S_unshift
    \/ S_insert
    \/ S_set
    \/ S_sort
    \/ S_remove
    \/ S_sortByStartDate
    \/ S_boundaries
    \/ S_gaps
    \/ S_totalDuration
    \/ S_merge
    \/ T_union
    \/ T_intersect
    \/ T_subtract
    \/ C_reassign

SpecChain == InitChain /\ [][NextChain]_vars

\* one instance through any number of queries and removals
Q_count ==
    /\ variant = Linked
    /\ Unary("count", Null, Query("count", s1))

Q_isEmpty ==
    /\ variant = Linked
    /\ Unary("isEmpty", Null, Query("isEmpty", s1))

Q_totalDuration ==
    /\ variant = Linked
    /\ Unary("totalDuration", Null, Query("totalDuration", s1))

Q_boundaries ==
    /\ variant = Linked
    /\ Unary("boundaries", Null, Query("boundaries", s1))

Q_gaps ==
    /\ variant = Linked
    /\ Unary("gaps", Null, Query("gaps", s1))

Q_remove ==
    /\ variant = Linked
    /\ \E index \in Indices, useDefineForClassFields \in BOOLEAN :
         Unary("remove", [index |-> index, useDefineForClassFields |-> useDefineForClassFields],
               remove(s1, index, useDefineForClassFields))

InitCache == Construct(Arrays)

NextCache ==
    \/ Q_count
    \/ Q_isEmpty
    \/ Q_totalDuration
    \/ Q_boundaries
    \/ Q_gaps
    \/ Q_remove

SpecCache == InitCache /\ [][NextCache]_vars

\* gaps(), on arrays long and wide enough for three separated periods
GapPeriods ==
    {x \in {NewPeriod(Linked, a * DAY, b * DAY, k, Given) :
                a \in 0..GapMaxDay, b \in 0..GapMaxDay, k \in Bounds} : IsPeriod(x)}

GapArrays == ArraysOf(GapPeriods, GapLen)

InitGaps == Construct(GapArrays)

NextGaps == S_gaps

SpecGaps == InitGaps /\ [][NextGaps]_vars

-----------------------------------------------------------------------------
(* Properties of the Sequence operations *)


StartSorted(array) ==
    \A i, j \in DOMAIN array : i < j => array[i].startTime <= array[j].startTime

\* the interval an object stands for
Value(x) == <<x.startTime, x.endTime, x.bounds>>

Values(array) == {Value(array[k]) : k \in DOMAIN array}

SameIntervals(a, b) ==
    /\ Len(a) = Len(b)
    /\ \A k \in DOMAIN a : Value(a[k]) = Value(b[k])

\* out holds the elements of input, and those with the same start time in the
\* order they have in input
KeepsInsertionOrder(input, out) ==
    /\ Len(out) = Len(input)
    /\ \A k \in DOMAIN input :
         LET SameStart(x) == x.startTime = input[k].startTime
         IN SelectSeq(out, SameStart) = SelectSeq(input, SameStart)

\* out is ordered by the comparator f, and elements that f holds equal are in
\* the order they have in input
StablySortedBy(f, input, out) ==
    /\ Len(out) = Len(input)
    /\ \A i, j \in DOMAIN out : i < j => Compare(f, out[i], out[j]) <= 0
    /\ \A k \in DOMAIN input :
         LET Tied(x) == Compare(f, x, input[k]) = 0
         IN SelectSeq(out, Tied) = SelectSeq(input, Tied)

FirstIndex(array, x) == CHOOSE k \in DOMAIN array : array[k] = x /\ \A m \in 1..(k - 1) : array[m] # x

SortingConstructed == op = "new" /\ ~arg.preserveOrder

Returned(names) == op \in names /\ IsSequence(res.out)

OperandsStartSorted ==
    /\ StartSorted(s1.periods)
    /\ op \in {"union", "intersect", "subtract"} => StartSorted(arg.given.periods)

\* C1 as stated: a Sequence built by the sorting constructor or returned by
\* sort, union, intersect, subtract or merge is sorted ascending by startTime,
\* and the sorting constructor keeps the insertion order of equal start times.
C1_AlwaysStartSorted ==
    /\ SortingConstructed =>
         StartSorted(s1.periods) /\ KeepsInsertionOrder(arg.periods, s1.periods)
    /\ Returned({"sort", "union", "intersect", "subtract", "merge"}) =>
         StartSorted(res.out.periods)

\* C1, amended: the sorting constructor and a union of two non-empty Sequences
\* give a start-sorted array in which equal start times keep their insertion
\* order (the receiver's periods before the argument's); sort(f) gives an
\* array stably ordered by f, whatever f compares; intersect, subtract, merge
\* and a union with an empty operand give a start-sorted array whenever their
\* operands are start-sorted.
C1_SortedWhereSorted ==
    /\ SortingConstructed =>
         StartSorted(s1.periods) /\ KeepsInsertionOrder(arg.periods, s1.periods)
    /\ (Returned({"union"}) /\ res.alias = "new") =>
         LET both == s1.periods \o arg.given.periods
             out == res.out.periods
         IN /\ StartSorted(out)
            /\ \A i, j \in DOMAIN out :
                 (i < j /\ out[i].startTime = out[j].startTime)
                     => FirstIndex(both, out[i]) < FirstIndex(both, out[j])
    /\ Returned({"sort"}) => StablySortedBy(arg.compareFn, s1.periods, res.out.periods)
    /\ (Returned({"union", "intersect", "subtract", "merge"}) /\ OperandsStartSorted) =>
         StartSorted(res.out.periods)

\* the sorting constructor was handed two periods in descending start order
C1_Witness ==
    /\ SortingConstructed
    /\ Len(arg.periods) = 2
    /\ arg.periods[1].startTime > arg.periods[2].startTime
    /\ s1.periods = <<arg.periods[2], arg.periods[1]>>

\* C5: no operation other than remove changes what its operands hold: after
\* union, intersect, subtract, merge, sort, push, unshift, insert, set, clear
\* and toArray the receiver's and the argument's periods are element for
\* element what they were, and changing the array toArray() returned does not
\* change the Sequence.
C5_OperandsUnchanged ==
    [][/\ op' # "remove" => s1'.periods = s1.periods
       /\ op' \in {"union", "intersect", "subtract"} => arg'.now.periods = arg'.given.periods
      ]_vars

\* push returned a longer Sequence from a receiver of two periods
C5_Witness ==
    /\ Returned({"push"})
    /\ Len(s1.periods) = 2
    /\ res.out.periods = Append(s1.periods, arg.period)

\* C6: merge is idempotent: merging the Sequence that merge() returned gives
\* the same count and, element by element, the same start, end and bounds.
C6_MergeIdempotent ==
    (op = "merge.merge" /\ IsSequence(res.out))
        => SameIntervals(res.out.periods, res.first.periods)

\* C7 as stated: every Period that intersect emits is contained, by contains(),
\* in a member of the receiver and in a member of the argument.
C7_ContainedByMembers ==
    Returned({"intersect"}) =>
        \A k \in DOMAIN res.out.periods :
            /\ \E i \in DOMAIN s1.periods : contains(s1.periods[i], res.out.periods[k])
            /\ \E j \in DOMAIN arg.given.periods :
                 contains(arg.given.periods[j], res.out.periods[k])

\* C7, amended: every Period x that intersect emits is the common part of a
\* member a of the receiver and a member b of the argument: it runs from the
\* later start to the earlier end of the two, so within the endpoints of both,
\* and has a's bounds (a.contains(x) is false where x shares an exclusive
\* endpoint with a).
C7_WithinMembers ==
    Returned({"intersect"}) =>
        \A k \in DOMAIN res.out.periods :
            \E i \in DOMAIN s1.periods, j \in DOMAIN arg.given.periods :
                LET x == res.out.periods[k]
                    a == s1.periods[i]
                    b == arg.given.periods[j]
                IN /\ x.startTime = Max(a.startTime, b.startTime)
                   /\ x.endTime = Min(a.endTime, b.endTime)
                   /\ a.startTime <= x.startTime /\ x.endTime <= a.endTime
                   /\ b.startTime <= x.startTime /\ x.endTime <= b.endTime
                   /\ x.bounds = a.bounds

\* intersect emitted a Period that is shorter than both members it comes from
C7_Witness ==
    /\ Returned({"intersect"})
    /\ Len(res.out.periods) = 2
    /\ \E i \in DOMAIN s1.periods, j \in DOMAIN arg.given.periods :
         LET x == res.out.periods[1]
         IN /\ s1.periods[i].startTime < x.startTime
            /\ x.endTime < arg.given.periods[j].endTime
            /\ x.startTime = arg.given.periods[j].startTime
            /\ x.endTime = s1.periods[i].endTime

\* the pairs of a member of the receiver and a member of the argument whose
\* later start is before their earlier end
IntersectingPairs ==
    {pair \in {<<s1.periods[i], arg.given.periods[j]>> :
                  i \in DOMAIN s1.periods, j \in DOMAIN arg.given.periods} :
        Max(pair[1].startTime, pair[2].startTime) < Min(pair[1].endTime, pair[2].endTime)}

\* C8: for start-sorted operands intersect emits exactly the intervals from
\* the later start to the earlier end, with a's bounds, of every pair of a
\* member a of the receiver and a member b of the argument whose later start
\* is before its earlier end: no such pair is skipped, nothing else is emitted.
C8_ExactlyThePairwiseIntersections ==
    (Returned({"intersect"}) /\ OperandsStartSorted) =>
        Values(res.out.periods) =
            {<<Max(pair[1].startTime, pair[2].startTime),
               Min(pair[1].endTime, pair[2].endTime), pair[1].bounds>> :
                pair \in IntersectingPairs}

\* the members of the receiver that overlap no member of the argument
OverlapsNone(t) == \A k \in DOMAIN arg.given.periods : ~Overlaps(Linked, t, arg.given.periods[k])

\* C9: for start-sorted operands subtract returns exactly the members of the
\* receiver that overlap no member of the argument, in the receiver's order.
C9_KeepsExactlyTheNonOverlapping ==
    (Returned({"subtract"}) /\ OperandsStartSorted) =>
        res.out.periods = SelectSeq(s1.periods, OverlapsNone)

\* C10: the union of two non-empty Sequences holds every interval value of
\* either operand exactly once; when an operand is empty the other operand is
\* returned unchanged.
C10_UnionKeepsEachValueOnce ==
    Returned({"union"}) =>
        IF Len(s1.periods) > 0 /\ Len(arg.given.periods) > 0
        THEN /\ Values(res.out.periods) = Values(s1.periods) \cup Values(arg.given.periods)
             /\ Len(res.out.periods) = Cardinality(Values(res.out.periods))
        ELSE /\ res.alias \in {"this", "other"}
             /\ res.out.periods = (IF res.alias = "this" THEN s1.periods
                                   ELSE arg.given.periods)

\* current and next, in start order, share an instant or touch with at least
\* one of the two touching boundaries inclusive
Fusible(current, next) ==
    \/ next.startTime < current.endTime
    \/ /\ next.startTime = current.endTime
       /\ isEndInclusive(current.bounds) \/ isStartInclusive(next.bounds)

\* the intervals a left-to-right sweep leaves when it fuses exactly the
\* fusible pairs into <<min start, max end, current's bounds>>
RECURSIVE Swept(_, _, _)
Swept(periods, i, current) ==
    IF i > Len(periods) THEN <<current>>
    ELSE IF Fusible([startTime |-> current[1], endTime |-> current[2], bounds |-> current[3]],
                    periods[i])
         THEN Swept(periods, i + 1,
                    <<Min(current[1], periods[i].startTime),
                      Max(current[2], periods[i].endTime), current[3]>>)
    ELSE <<current>> \o Swept(periods, i + 1, Value(periods[i]))

\* C11: merge() on a start-sorted Sequence fuses the accumulated period with
\* the next one into [min start, max end] with the accumulated period's bounds
\* exactly when they overlap or touch with one of the touching boundaries
\* inclusive; touching periods whose touching boundaries are both exclusive
\* stay separate, and consecutive touching [start,end) periods become one.
C11_MergeFusesExactlyTheFusible ==
    (Returned({"merge"}) /\ StartSorted(s1.periods) /\ Len(s1.periods) > 0) =>
        /\ Len(res.out.periods) = Len(Swept(s1.periods, 2, Value(s1.periods[1])))
        /\ \A k \in DOMAIN res.out.periods :
             Value(res.out.periods[k]) = Swept(s1.periods, 2, Value(s1.periods[1]))[k]

\* three consecutive touching [start,end) periods were merged into one
C11_Witness ==
    /\ Returned({"merge"})
    /\ Len(s1.periods) = 3
    /\ \A k \in 1..3 : s1.periods[k].bounds = IncludeStartExcludeEnd
    /\ \A k \in 1..2 : s1.periods[k].endTime = s1.periods[k + 1].startTime
    /\ Len(res.out.periods) = 1
    /\ Value(res.out.periods[1])
         = <<s1.periods[1].startTime, s1.periods[3].endTime, IncludeStartExcludeEnd>>

\* the index-adjacent pair (i, i+1) of the receiver neither overlaps nor touches
Separated(i) ==
    /\ ~Overlaps(Linked, s1.periods[i], s1.periods[i + 1])
    /\ ~touches(s1.periods[i], s1.periods[i + 1])

\* the intervals between the separated index-adjacent pairs, in index order
IntervalsBetween ==
    LET pairs == SelectSeq([i \in 1..(Len(s1.periods) - 1) |-> i], Separated)
    IN [k \in DOMAIN pairs |->
          <<s1.periods[pairs[k]].endTime, s1.periods[pairs[k] + 1].startTime,
            s1.periods[pairs[k]].bounds>>]

PairwiseSeparated ==
    \A i, j \in DOMAIN s1.periods :
        i < j => s1.periods[i].endTime < s1.periods[j].startTime

\* C12: gaps() of a start-sorted Sequence holds, in order, the interval from
\* periods[i].endTime to periods[i+1].startTime with periods[i]'s bounds for
\* exactly the index-adjacent pairs that neither overlap nor touch; n pairwise
\* separated periods give n-1 gaps, no or one period gives none.
C12_GapsBetweenSeparatedNeighbours ==
    (op = "gaps" /\ StartSorted(s1.periods)) =>
        /\ IsSequence(res.out)
        /\ Len(res.out.periods) = Len(IntervalsBetween)
        /\ \A k \in DOMAIN res.out.periods : Value(res.out.periods[k]) = IntervalsBetween[k]
        /\ (PairwiseSeparated /\ Len(s1.periods) > 0)
              => Len(res.out.periods) = Len(s1.periods) - 1
        /\ Len(s1.periods) <= 1 => Len(res.out.periods) = 0

\* three pairwise separated periods gave two gaps
C12_Witness ==
    /\ op = "gaps"
    /\ Len(s1.periods) = 3
    /\ PairwiseSeparated
    /\ IsSequence(res.out)
    /\ Len(res.out.periods) = 2

MinStart(array) == CHOOSE t \in {array[k].startTime : k \in DOMAIN array} :
                       \A k \in DOMAIN array : t <= array[k].startTime

MaxEnd(array) == CHOOSE t \in {array[k].endTime : k \in DOMAIN array} :
                     \A k \in DOMAIN array : t >= array[k].endTime

\* C13: boundaries() of any Sequence the public API can build is undefined when
\* it is empty and otherwise the Period from the minimum startTime of its
\* members to their maximum endTime, with the first member's bounds.
C13_BoundariesSpanAllMembers ==
    op = "boundaries" =>
        IF Len(s1.periods) = 0 THEN res.out = Null
        ELSE /\ IsPeriod(res.out)
             /\ Value(res.out) = <<MinStart(s1.periods), MaxEnd(s1.periods), s1.periods[1].bounds>>

\* C14: whatever was called on an instance before, each of count(), isEmpty(),
\* totalDuration(), boundaries() and gaps() returns what a new instance holding
\* the same periods returns, and calling it again returns the same.
C14_AggregatesNeverStale ==
    op \in Aggregates =>
        /\ res.out = Query(op, SeqObj(s1.periods, s1.sorted)).out
        /\ Query(op, s1).out = res.out

\* C15: remove(i) returns the Period that was at position i (count + i for a
\* negative i) and leaves the receiver with the other periods in their order:
\* count() is one less than it was and get(k) returns the shifted elements.
C15_RemoveDeletesOnePosition ==
    [][(op' = "remove" /\ ~IsThrown(res'.out)) =>
          LET len == Len(s1.periods)
              i == IF arg'.index < 0 THEN len + arg'.index ELSE arg'.index
          IN /\ res'.out = s1.periods[i + 1]
             /\ s1'.periods = SubSeq(s1.periods, 1, i) \o SubSeq(s1.periods, i + 2, len)
             /\ Query("count", s1').out = Query("count", s1).out - 1
             /\ \A k \in 0..(len - 2) :
                  get(s1', k).out = IF k < i THEN s1.periods[k + 1] ELSE s1.periods[k + 2]]_vars

Positional == {"get", "insert", "remove", "set"}

\* whether the claim has name(index, ...) fail on a Sequence of n periods
OutOfRange(name, n, index) ==
    LET normalized == IF index < 0 THEN n + index ELSE index
    IN CASE name = "get" -> index < 0 \/ index >= n
         [] name = "insert" -> normalized < 0 \/ normalized > n
         [] OTHER -> normalized < 0 \/ normalized >= n

\* C16: get(i) fails iff i < 0 or i >= count; insert(i, p) fails iff i, with
\* count added when negative, is outside [0, count]; remove(i) and set(i, p)
\* fail iff it is outside [0, count); a failure is an out-of-bounds error and
\* leaves the Sequence as it was, and otherwise the call succeeds.
C16_FailsExactlyWhenOutOfRange ==
    [][op' \in Positional =>
          /\ IsThrown(res'.out) <=> OutOfRange(op', Len(s1.periods), arg'.index)
          /\ IsThrown(res'.out) => (res'.out = Throw(OutOfBounds) /\ s1' = s1)
          /\ ~IsThrown(res'.out) =>
                IF op' \in {"insert", "set"} THEN IsSequence(res'.out) ELSE IsPeriod(res'.out)]_vars

\* get(-1) failed on a Sequence that has a last period
C16_Witness ==
    /\ op = "get"
    /\ arg.index = -1
    /\ Len(s1.periods) > 0
    /\ res.out = Throw(OutOfBounds)

\* C17: a.contains(b) is true iff a.startTime <= b.startTime (< when a's start
\* is exclusive) and a.endTime >= b.endTime (> when a's end is exclusive); the
\* bounds of b play no role.
C17_ContainsByOwnBounds ==
    pop.name = "contains" =>
        /\ pout.bool <=>
              /\ IF isStartInclusive(p.bounds) THEN p.startTime <= pop.other.startTime
                 ELSE p.startTime < pop.other.startTime
              /\ IF isEndInclusive(p.bounds) THEN p.endTime >= pop.other.endTime
                 ELSE p.endTime > pop.other.endTime
        /\ \A k \in Bounds : contains(p, [pop.other EXCEPT !.bounds = k]) = pout.bool

\* [s, e) does not contain [t, e) with s < t, whose end it excludes
C17_Witness ==
    /\ pop.name = "contains"
    /\ p.bounds = IncludeStartExcludeEnd /\ pop.other.bounds = IncludeStartExcludeEnd
    /\ p.startTime < pop.other.startTime
    /\ p.endTime = pop.other.endTime
    /\ pout.bool = FALSE

\* C18: a.gap(b) is null iff a and b overlap or touch; otherwise it is the
\* Period from the earlier period's endTime to the later one's startTime with
\* a's bounds; it never raises, and b.gap(a) has the same endpoints.
C18_GapBetweenSeparated ==
    pop.name = "gap" =>
        LET a == p
            b == pop.other
            earlier == IF a.startTime <= b.startTime THEN a ELSE b
            later == IF a.startTime <= b.startTime THEN b ELSE a
            back == gap(variant, b, a)
        IN /\ ~IsThrown(pout)
           /\ IsNull(pout) <=> (Overlaps(variant, a, b) \/ touches(a, b))
           /\ ~IsNull(pout) =>
                 /\ Value(pout) = <<earlier.endTime, later.startTime, a.bounds>>
                 /\ IsPeriod(back)
                 /\ back.startTime = pout.startTime /\ back.endTime = pout.endTime

\* a gap taken from the later of two separated periods
C18_Witness ==
    /\ pop.name = "gap"
    /\ pop.other.endTime < p.startTime
    /\ IsPeriod(pout)
    /\ pout.bounds # pop.other.bounds

\* C19: in the day-precision Period a.intersection(b) is null iff a.overlaps(b)
\* is false, and whenever a.overlaps(b) is true, also at one shared inclusive
\* endpoint only, it is the Period from max(starts) to min(ends) with a's
\* bounds, and nothing is raised.
C19_IntersectionOfEveryOverlap ==
    (pop.name = "intersection" /\ variant = "day") =>
        /\ IsNull(pout) <=> ~Day_overlaps(p, pop.other)
        /\ Day_overlaps(p, pop.other) =>
              /\ IsPeriod(pout)
              /\ Value(pout) = <<Max(p.startTime, pop.other.startTime),
                                 Min(p.endTime, pop.other.endTime), p.bounds>>

\* C20: a.overlaps(b) = b.overlaps(a), a.touches(b) = b.touches(a) and
\* a.abuts(b) = b.abuts(a), for every combination of bounds.
C20_Symmetric ==
    /\ pop.name = "overlaps" => pout.bool = Overlaps(variant, pop.other, p)
    /\ pop.name = "touches" => pout.bool = touches(pop.other, p)
    /\ pop.name = "abuts" => pout.bool = abuts(variant, pop.other, p)

\* b ends where a starts, with bounds of different kinds, and a.touches(b)
C20_Witness ==
    /\ pop.name = "touches"
    /\ pop.other.endTime = p.startTime
    /\ pop.other.bounds # p.bounds
    /\ pout.bool

Occurrences(array, x) == Cardinality({k \in DOMAIN array : array[k] = x})

SameElements(a, b) ==
    /\ Len(a) = Len(b)
    /\ \A k \in DOMAIN a : Occurrences(a, a[k]) = Occurrences(b, a[k])

\* C22: after any chain of constructor, push, unshift, insert, set, sort and
\* remove the known-sorted flag is never true on an instance whose array is not
\* start-sorted, so sortByStartDate() returns the receiver itself only when its
\* periods are start-sorted; when the flag is false it returns a new
\* start-sorted Sequence with the same elements.
C22_FlagOnlyOnSorted ==
    /\ s1.sorted => StartSorted(s1.periods)
    /\ (op \in Chained /\ IsSequence(res.out)) =>
          (res.out.sorted => StartSorted(res.out.periods))
    /\ op = "sortByStartDate" =>
          /\ res.alias = "this" => (res.out = s1 /\ StartSorted(s1.periods))
          /\ ~s1.sorted =>
                /\ res.alias = "new"
                /\ StartSorted(res.out.periods)
                /\ SameElements(s1.periods, res.out.periods)

\* sortByStartDate() put in start order what two unshift calls had left out of it
C22_Witness ==
    /\ op = "sortByStartDate"
    /\ Len(s1.periods) = 3
    /\ ~StartSorted(s1.periods)
    /\ res.alias = "new"
    /\ StartSorted(res.out.periods)

\* C23: no interval that gaps() of a start-sorted Sequence returns overlaps a
\* member of the Sequence, also when members overlap or nest.
C23_GapsOverlapNoMember ==
    (op = "gaps" /\ StartSorted(s1.periods) /\ IsSequence(res.out)) =>
        \A g \in DOMAIN res.out.periods, m \in DOMAIN s1.periods :
            ~Overlaps(Linked, res.out.periods[g], s1.periods[m])

\* C24: FastBounds.touchingOverlaps(b1, b2) is true exactly when a Period with
\* bounds b1 that ends at t and a Period with bounds b2 that starts at t
\* overlap: iff b1 is end-inclusive and b2 is start-inclusive.
C24_TouchingOverlapsAgrees ==
    pop.name = "touchingOverlaps" =>
        /\ pout.bool <=> (isEndInclusive(p.bounds) /\ isStartInclusive(pop.other.bounds))
        /\ p.endTime = pop.other.startTime => (pout.bool <=> Overlaps(variant, p, pop.other))

Raising == {"boundaries", "gaps", "totalDuration", "merge", "union", "intersect", "subtract"}

\* C25: on every Sequence that the constructors and chains of push, unshift,
\* insert, set, sort and remove give, in start order or not, boundaries(),
\* gaps(), totalDuration(), merge(), union(), intersect() and subtract()
\* return a result and raise nothing.
C25_NeverRaises ==
    /\ op = "totalDuration" => res.out \in Int
    /\ op \in Raising \ {"totalDuration"} => ~IsThrown(res.out)

\* C26: merge() of a Sequence built by the sorting constructor is sorted
\* ascending by startTime and pairwise non-overlapping (for members x before
\* y, x.endTime <= y.startTime and x.overlaps(y) is false), and spans the same
\* minimum start and maximum end as the Sequence.
C26_MergedDisjoint ==
    (op = "merge" /\ ~arg.preserveOrder) =>
        /\ IsSequence(res.out)
        /\ StartSorted(res.out.periods)
        /\ \A i, j \in DOMAIN res.out.periods :
              i < j => /\ res.out.periods[i].endTime <= res.out.periods[j].startTime
                       /\ ~Overlaps(Linked, res.out.periods[i], res.out.periods[j])
        /\ Len(s1.periods) > 0 =>
              /\ MinStart(res.out.periods) = MinStart(s1.periods)
              /\ MaxEnd(res.out.periods) = MaxEnd(s1.periods)

\* three periods given out of order, the first two of the sorted array nested,
\* became two
C26_Witness ==
    /\ op = "merge"
    /\ ~arg.preserveOrder
    /\ ~StartSorted(arg.periods)
    /\ Len(s1.periods) = 3
    /\ s1.periods[2].endTime < s1.periods[1].endTime
    /\ Len(res.out.periods) = 2

\* C27: for start-sorted Sequences s and o, s.subtract(o).intersect(o) is
\* empty, and s.subtract(s) is empty.
C27_SubtractLeavesNothingCommon ==
    /\ (op = "subtract.intersect" /\ StartSorted(s1.periods) /\ StartSorted(arg.given.periods)) =>
          (IsSequence(res.out) /\ Len(res.out.periods) = 0)
    /\ (op = "subtract" /\ StartSorted(s1.periods) /\ arg.given.periods = s1.periods) =>
          (IsSequence(res.out) /\ Len(res.out.periods) = 0)

\* of two periods subtract(o) removed one and kept one, which has nothing in
\* common with o
C27_Witness ==
    /\ op = "subtract.intersect"
    /\ StartSorted(s1.periods) /\ StartSorted(arg.given.periods)
    /\ Len(s1.periods) = 2
    /\ Len(arg.given.periods) = 2
    /\ Len(res.first.periods) = 1
    /\ Len(res.out.periods) = 0

\* C28: for Sequences s and o built by the sorting constructor, also with
\* members that share a startTime and differ in endTime or bounds,
\* s.union(o).equals(o.union(s)) is true.
C28_UnionCommutes ==
    (op = "union" /\ StartSorted(s1.periods) /\ StartSorted(arg.given.periods)) =>
        Sequence_equals(res.out, union(arg.given, s1).out)

NoDuplicates(array) == \A i, j \in DOMAIN array : array[i] = array[j] => i = j

\* C29: after any acquire, release and clear calls the pool never holds the
\* same Period object twice and never more than maxSize objects; two acquire
\* calls with no release between them return distinct objects, and no acquire
\* overwrites a Period a caller holds.
C29_PoolHoldsEachObjectOnce ==
    pool # Null =>
        /\ NoDuplicates(pool.pool)
        /\ Len(pool.pool) <= maxSize
        /\ NoDuplicates(pool.streak)
        /\ ~pool.last.overwrote

\* C30: an acquire that raises leaves the pool as it was: the pooled objects,
\* hits, misses and the fields of every Period are unchanged; after every
\* successful acquire hits + misses is the number of successful acquire calls
\* since the last clear.
C30_FailedAcquireChangesNothing ==
    [][pool'.last.name = "acquire" =>
          IF pool'.last.thrown
          THEN /\ pool'.pool = pool.pool
               /\ pool'.hits = pool.hits
               /\ pool'.misses = pool.misses
               /\ pool'.heap = pool.heap
          ELSE pool'.hits + pool'.misses = pool'.acquired]_vars

=============================================================================
